---- MODULE Spec2Model ----
(***************************************************************************)
(* Merkle tree builder of src/s05_zk_lab.rs.                               *)
(*                                                                         *)
(* Strings are sequences of one-character strings.  Box<Node> is an        *)
(* address into `heap`; Option<T> is <<>> (None) or <<x>> (Some(x)).       *)
(* The operators that allocate or hash thread a machine record             *)
(*   m = [heap, log, fault, levels]                                        *)
(* where log lists the inputs given to mock_hash, in call order, fault     *)
(* names the panic that ended the call ("none" when it returned), and      *)
(* levels lists, for each call of build_recursive, the nodes it was given  *)
(* and the nodes it paired.                                                *)
(***************************************************************************)
EXTENDS Integers, Sequences, FiniteSets, TLC

VARIABLES
    key,        \* selects the hash function standing for DefaultHasher
    heap,       \* address -> Node [hash, left, right], the live boxes
    tree,       \* Option<MerkleTree>: the tree built last
    prev,       \* Option<MerkleTree>: the tree built before it (still alive)
    data,       \* the blocks `tree` was built from (the argument of new)
    prev_data,  \* the same for `prev`
    log,        \* inputs of mock_hash during the build of `tree`
    prev_log,   \* the same for `prev`
    fault,      \* "none", or the panic that aborted the program
    digest,     \* Option<String>: what root_hash() last returned on `tree`
    verified,   \* outcome of run()'s manual verification
    levels,     \* the levels build_recursive went through to build `tree`
    builds,     \* the calls of MerkleTree::new in progress on concurrent threads
    sync,       \* the shared account demo: the mutex, its threads and its output
    chan        \* the channel demo: the queue, its senders and the consumer

vars == <<key, heap, tree, prev, data, prev_data, log, prev_log, fault, digest,
          verified, levels, builds, sync, chan>>

----------------------------------------------------------------------------
(* Bounds of the model *)

MaxLen == 5         \* longest input sequence given to MerkleTree::new
MaxKey == 1         \* hash functions 0..MaxKey are explored
HashBits == 12      \* width of the modelled hash value (u64 in the source)
NumBuilds == 2      \* threads that call MerkleTree::new concurrently
ConcLen == 3        \* longest input of a concurrent build

----------------------------------------------------------------------------
(* Strings *)

None == <<>>
Some(x) == <<x>>

HexDigits ==
    <<"0", "1", "2", "3", "4", "5", "6", "7", "8", "9", "a", "b", "c", "d", "e", "f">>

\* UTF-8 byte of each character the model uses
Ascii ==
    ("0" :> 48) @@ ("1" :> 49) @@ ("2" :> 50) @@ ("3" :> 51) @@ ("4" :> 52) @@
    ("5" :> 53) @@ ("6" :> 54) @@ ("7" :> 55) @@ ("8" :> 56) @@ ("9" :> 57) @@
    ("a" :> 97) @@ ("b" :> 98) @@ ("c" :> 99) @@ ("d" :> 100) @@ ("e" :> 101) @@
    ("f" :> 102) @@ ("h" :> 104) @@ ("i" :> 105) @@ ("l" :> 108) @@ ("o" :> 111) @@
    ("r" :> 114) @@ ("v" :> 118) @@ ("x" :> 120) @@ ("A" :> 65) @@ ("B" :> 66) @@
    ("C" :> 67) @@ ("D" :> 68) @@ ("T" :> 84) @@ (":" :> 58) @@ (" " :> 32) @@
    ("-" :> 45) @@ (">" :> 62)

RECURSIVE Pow2(_)
Pow2(n) == IF n = 0 THEN 1 ELSE 2 * Pow2(n - 1)

\* the hash values are 0 .. HashSpace - 1
HashSpace == Pow2(HashBits)

\* format!("{:x}", n): lower-case hex, no leading zeros, "0" for zero
RECURSIVE ToHex(_)
ToHex(n) ==
    IF n < 16 THEN <<HexDigits[n + 1]>>
    ELSE Append(ToHex(n \div 16), HexDigits[(n % 16) + 1])

----------------------------------------------------------------------------
(* mock_hash *)

\* DefaultHasher is SipHash-1-3 of the standard library, on 64 bits.  It is
\* modelled by a family of multiplicative hash functions on HashBits bits,
\* one per `key`.  Mult is the multiplier of function `key` (odd, so that a
\* write permutes the hash states).  The constant is picked so that function 0
\* shows, among the short strings of the model, the coincidences a 64-bit
\* hash has among long ones: mock_hash("bb") = "b", a string that is its own
\* digest written twice, and mock_hash("Th") = "bb", two digests d and dd.
Mult == 2 * key + 797

\* Hasher::write over the bytes of the input, from state h
RECURSIVE hasher_write(_, _)
hasher_write(h, bytes) ==
    IF bytes = <<>> THEN h
    ELSE hasher_write((h * Mult + Ascii[Head(bytes)]) % HashSpace, Tail(bytes))

\* input.hash(&mut hasher); hasher.finish(): str's Hash writes the bytes and
\* then the terminator byte 0xff.
hasher_finish(input) ==
    (hasher_write(key, input) * Mult + 255) % HashSpace

\* Mutation of mock_hash: a hasher of RandomState, whose keys change from one
\* build to the next (here with the number of live boxes).
mock_hash_random_state(input) ==
    ToHex((hasher_write(key + Cardinality(DOMAIN heap), input) * Mult + 255) % HashSpace)

mock_hash(input) == ToHex(hasher_finish(input))

----------------------------------------------------------------------------
(* Boxes *)

Machine(h) == [heap |-> h, log |-> <<>>, fault |-> "none", levels |-> <<>>]

\* a call of build_recursive was given `nodes` and paired `padded` (no pairing
\* in the base case: the level is returned as it is)
Entered(m, nodes, padded) ==
    [m EXCEPT !.levels = Append(@, [nodes |-> nodes, padded |-> padded])]

Ret(m, v) == [m |-> m, v |-> v]

Panic(m, why) == [m EXCEPT !.fault = why]

\* Box::new: the node is moved to a fresh address (the lowest free one)
Box_new(m, node) ==
    LET free == {a \in 1..(Cardinality(DOMAIN m.heap) + 1) : a \notin DOMAIN m.heap}
        a == CHOOSE x \in free : \A y \in free : x <= y
    IN Ret([m EXCEPT !.heap = (a :> node) @@ m.heap], a)

\* <Box<Node> as Clone>::clone with #[derive(Clone)] on Node: a deep copy,
\* every node of the subtree is copied to a fresh address.
RECURSIVE Box_clone(_, _)
Box_clone(m, p) ==
    LET n == m.heap[p]
        l == IF n.left = None THEN Ret(m, None)
             ELSE LET c == Box_clone(m, n.left[1]) IN Ret(c.m, Some(c.v))
        r == IF n.right = None THEN Ret(l.m, None)
             ELSE LET c == Box_clone(l.m, n.right[1]) IN Ret(c.m, Some(c.v))
    IN Box_new(r.m, [hash |-> n.hash, left |-> l.v, right |-> r.v])

\* The addresses owned through box p
RECURSIVE Subtree(_, _)
Subtree(h, p) ==
    {p} \cup (IF h[p].left = None THEN {} ELSE Subtree(h, h[p].left[1]))
        \cup (IF h[p].right = None THEN {} ELSE Subtree(h, h[p].right[1]))

----------------------------------------------------------------------------
(* Node *)

\* Mutation of new_leaf: the block is stored as it is, not its digest.
new_leaf_raw(m, block) ==
    Ret([m EXCEPT !.log = Append(@, block)],
        [hash |-> block, left |-> None, right |-> None])

\* Mutation of new_leaf: the block is hashed behind a tag that marks it as
\* leaf content.
new_leaf_tagged(m, block) ==
    Ret([m EXCEPT !.log = Append(@, <<"0">> \o block)],
        [hash |-> mock_hash(<<"0">> \o block), left |-> None, right |-> None])

new_leaf(m, block) ==
    Ret([m EXCEPT !.log = Append(@, block)],
        [hash |-> mock_hash(block), left |-> None, right |-> None])

\* Mutation of new_internal: the left digest is concatenated with itself.
new_internal_left_twice(m, left, right) ==
    LET combined_data == m.heap[left].hash \o m.heap[left].hash
        new_hash == mock_hash(combined_data)
    IN Ret([m EXCEPT !.log = Append(@, combined_data)],
           [hash |-> new_hash, left |-> Some(left), right |-> Some(right)])

\* Mutation of new_internal: two children of equal digest are not hashed, the
\* parent takes their digest.
new_internal_dedup(m, left, right) ==
    LET combined_data == m.heap[left].hash \o m.heap[right].hash
        same == m.heap[left].hash = m.heap[right].hash
        new_hash == IF same THEN m.heap[left].hash ELSE mock_hash(combined_data)
    IN Ret([m EXCEPT !.log = IF same THEN @ ELSE Append(@, combined_data)],
           [hash |-> new_hash, left |-> Some(left), right |-> Some(right)])

\* Mutation of new_internal: the two digests are concatenated right first.
new_internal_swapped(m, left, right) ==
    LET combined_data == m.heap[right].hash \o m.heap[left].hash
        new_hash == mock_hash(combined_data)
    IN Ret([m EXCEPT !.log = Append(@, combined_data)],
           [hash |-> new_hash, left |-> Some(left), right |-> Some(right)])

\* Mutation of new_internal: a node paired with a copy of itself becomes an
\* only child.
new_internal_single_child(m, left, right) ==
    LET combined_data == m.heap[left].hash \o m.heap[right].hash
        new_hash == mock_hash(combined_data)
        same == m.heap[left].hash = m.heap[right].hash
    IN Ret([m EXCEPT !.log = Append(@, combined_data)],
           [hash |-> new_hash, left |-> Some(left),
            right |-> IF same THEN None ELSE Some(right)])

\* Mutation of new_internal: the two digests are joined with a separator
\* between them.
new_internal_separated(m, left, right) ==
    LET combined_data == m.heap[left].hash \o <<":">> \o m.heap[right].hash
        new_hash == mock_hash(combined_data)
    IN Ret([m EXCEPT !.log = Append(@, combined_data)],
           [hash |-> new_hash, left |-> Some(left), right |-> Some(right)])

new_internal(m, left, right) ==
    LET combined_data == m.heap[left].hash \o m.heap[right].hash
        new_hash == mock_hash(combined_data)
    IN Ret([m EXCEPT !.log = Append(@, combined_data)],
           [hash |-> new_hash, left |-> Some(left), right |-> Some(right)])

----------------------------------------------------------------------------
(* MerkleTree *)

\* Mutation of pair_loop: the nodes are popped from the back of the level, so
\* the pairs are made last pair first.
RECURSIVE pair_loop_from_back(_, _, _)
pair_loop_from_back(m, iter, next_level) ==
    IF iter = <<>> THEN Ret(m, next_level)
    ELSE IF Len(iter) = 1
         THEN Ret(Panic(m, "node count should be even"), next_level)
         ELSE LET parent == new_internal(m, iter[Len(iter) - 1], iter[Len(iter)])
                  boxed == Box_new(parent.m, parent.v)
              IN pair_loop_from_back(boxed.m, SubSeq(iter, 1, Len(iter) - 2),
                                     Append(next_level, boxed.v))

\* while let Some(left) = iter.next() { right = iter.next().expect(..); .. }
RECURSIVE pair_loop(_, _, _)
pair_loop(m, iter, next_level) ==
    IF iter = <<>> THEN Ret(m, next_level)
    ELSE IF Len(iter) = 1
         THEN Ret(Panic(m, "node count should be even"), next_level)
         ELSE LET parent == new_internal(m, iter[1], iter[2])
                  boxed == Box_new(parent.m, parent.v)
              IN pair_loop(boxed.m, SubSeq(iter, 3, Len(iter)),
                           Append(next_level, boxed.v))

\* Mutation of pad_odd: the first node of the level is copied, not the last.
pad_odd_first(m, nodes) ==
    IF Len(nodes) % 2 # 0
    THEN IF nodes = <<>> THEN Ret(Panic(m, "unwrap on None"), nodes)
         ELSE LET first == Box_clone(m, nodes[1])
              IN Ret(first.m, Append(nodes, first.v))
    ELSE Ret(m, nodes)

\* Mutation of pad_odd: the test of the parity is inverted, an even level gets
\* the copy.
pad_odd_inverted(m, nodes) ==
    IF Len(nodes) % 2 = 0
    THEN IF nodes = <<>> THEN Ret(Panic(m, "unwrap on None"), nodes)
         ELSE LET last == Box_clone(m, nodes[Len(nodes)])
              IN Ret(last.m, Append(nodes, last.v))
    ELSE Ret(m, nodes)

\* Mutation of pad_odd: an odd level is filled up with the leaf of the empty
\* block, not with a copy of its last node.
pad_odd_empty_leaf(m, nodes) ==
    IF Len(nodes) % 2 # 0
    THEN IF nodes = <<>> THEN Ret(Panic(m, "unwrap on None"), nodes)
         ELSE LET leaf == new_leaf(m, <<>>)
                  boxed == Box_new(leaf.m, leaf.v)
              IN Ret(boxed.m, Append(nodes, boxed.v))
    ELSE Ret(m, nodes)

\* Mutation of pad_odd: the copy is a node with the digest of the last node
\* and no children.
pad_odd_digest_only(m, nodes) ==
    IF Len(nodes) % 2 # 0
    THEN IF nodes = <<>> THEN Ret(Panic(m, "unwrap on None"), nodes)
         ELSE LET last == Box_new(m, [hash |-> m.heap[nodes[Len(nodes)]].hash,
                                      left |-> None, right |-> None])
              IN Ret(last.m, Append(nodes, last.v))
    ELSE Ret(m, nodes)

\* Mutation of pad_odd: the last node of an odd level is left out of the
\* pairing (as chunks_exact(2) leaves the remainder out).
pad_odd_drop(m, nodes) ==
    IF Len(nodes) % 2 # 0
    THEN IF nodes = <<>> THEN Ret(Panic(m, "unwrap on None"), nodes)
         ELSE Ret(m, SubSeq(nodes, 1, Len(nodes) - 1))
    ELSE Ret(m, nodes)

\* Mutation of pad_odd: the level gets a second reference to its last node,
\* not a copy of it.
pad_odd_shared(m, nodes) ==
    IF Len(nodes) % 2 # 0
    THEN IF nodes = <<>> THEN Ret(Panic(m, "unwrap on None"), nodes)
         ELSE Ret(m, Append(nodes, nodes[Len(nodes)]))
    ELSE Ret(m, nodes)

\* if nodes.len() % 2 != 0 { let last = nodes.last().unwrap().clone();
\*                            nodes.push(last); }
pad_odd(m, nodes) ==
    IF Len(nodes) % 2 # 0
    THEN IF nodes = <<>> THEN Ret(Panic(m, "unwrap on None"), nodes)
         ELSE LET last == Box_clone(m, nodes[Len(nodes)])
              IN Ret(last.m, Append(nodes, last.v))
    ELSE Ret(m, nodes)

\* Mutation of build_recursive: the base case takes an internal node only, so
\* a single leaf is padded and paired with its copy.
RECURSIVE build_recursive_pad_single(_, _)
build_recursive_pad_single(m, nodes) ==
    IF Len(nodes) = 1 /\ m.heap[nodes[1]].left # None
    THEN Ret(Entered(m, nodes, nodes), nodes[Len(nodes)])
    ELSE IF nodes = <<>> THEN Ret(Panic(m, "stack overflow"), 0)
    ELSE LET padded == pad_odd(m, nodes)
             level == pair_loop(Entered(padded.m, nodes, padded.v), padded.v, <<>>)
         IN IF level.m.fault # "none" THEN Ret(level.m, 0)
            ELSE build_recursive_pad_single(level.m, level.v)

\* Mutation of build_recursive: no padding, the last node of an odd level is
\* carried to the next level unpaired.
RECURSIVE build_recursive_carry(_, _)
build_recursive_carry(m, nodes) ==
    IF Len(nodes) = 1 THEN Ret(Entered(m, nodes, nodes), nodes[Len(nodes)])
    ELSE IF nodes = <<>> THEN Ret(Panic(m, "stack overflow"), 0)
    ELSE LET odd == Len(nodes) % 2 # 0
             paired == IF odd THEN SubSeq(nodes, 1, Len(nodes) - 1) ELSE nodes
             level == pair_loop(Entered(m, nodes, paired), paired, <<>>)
         IN IF level.m.fault # "none" THEN Ret(level.m, 0)
            ELSE build_recursive_carry(level.m,
                     IF odd THEN Append(level.v, nodes[Len(nodes)]) ELSE level.v)

\* An empty level is neither the base case nor padded, the loop makes an empty
\* next level and the function calls itself on it: the stack overflows.
RECURSIVE build_recursive(_, _)
build_recursive(m, nodes) ==
    IF Len(nodes) = 1 THEN Ret(Entered(m, nodes, nodes), nodes[Len(nodes)])
    ELSE IF nodes = <<>> THEN Ret(Panic(m, "stack overflow"), 0)
    ELSE LET padded == pad_odd(m, nodes)
             level == pair_loop(Entered(padded.m, nodes, padded.v), padded.v, <<>>)
         IN IF level.m.fault # "none" THEN Ret(level.m, 0)
            ELSE build_recursive(level.m, level.v)

\* Mutation of collect_leaves: a block equal to the one before it gets no leaf.
RECURSIVE collect_leaves_dedup(_, _, _)
collect_leaves_dedup(m, blocks, nodes) ==
    IF blocks = <<>> THEN Ret(m, nodes)
    ELSE IF Len(blocks) > 1 /\ blocks[1] = blocks[2]
         THEN collect_leaves_dedup(m, Tail(blocks), nodes)
         ELSE LET leaf == new_leaf(m, Head(blocks))
                  boxed == Box_new(leaf.m, leaf.v)
              IN collect_leaves_dedup(boxed.m, Tail(blocks), Append(nodes, boxed.v))

\* Mutation of collect_leaves: each leaf is put in front of those made before
\* it, so the level is in reverse order.
RECURSIVE collect_leaves_reversed(_, _, _)
collect_leaves_reversed(m, blocks, nodes) ==
    IF blocks = <<>> THEN Ret(m, nodes)
    ELSE LET leaf == new_leaf(m, Head(blocks))
             boxed == Box_new(leaf.m, leaf.v)
         IN collect_leaves_reversed(boxed.m, Tail(blocks), <<boxed.v>> \o nodes)

\* data.iter().map(|d| Box::new(Node::new_leaf(d))).collect()
RECURSIVE collect_leaves(_, _, _)
collect_leaves(m, blocks, nodes) ==
    IF blocks = <<>> THEN Ret(m, nodes)
    ELSE LET leaf == new_leaf(m, Head(blocks))
             boxed == Box_new(leaf.m, leaf.v)
         IN collect_leaves(boxed.m, Tail(blocks), Append(nodes, boxed.v))

\* Mutation of MerkleTree::new: the guard on an empty input is missing.
MerkleTree_new_unguarded(m, blocks) ==
    LET nodes == collect_leaves(m, blocks, <<>>)
        root == build_recursive(nodes.m, nodes.v)
    IN Ret(root.m, [root |-> Some(root.v), leaves |-> blocks])

\* Mutation of MerkleTree::new: the blocks are stored after padding to an even
\* number.
MerkleTree_new_padded_leaves(m, blocks) ==
    IF blocks = <<>> THEN Ret(m, [root |-> None, leaves |-> <<>>])
    ELSE LET nodes == collect_leaves(m, blocks, <<>>)
             root == build_recursive(nodes.m, nodes.v)
             kept == IF Len(blocks) > 1 /\ Len(blocks) % 2 # 0
                     THEN Append(blocks, blocks[Len(blocks)]) ELSE blocks
         IN Ret(root.m, [root |-> Some(root.v), leaves |-> kept])

\* Mutation of MerkleTree::new: the blocks are not stored.
MerkleTree_new_no_leaves(m, blocks) ==
    IF blocks = <<>> THEN Ret(m, [root |-> None, leaves |-> <<>>])
    ELSE LET nodes == collect_leaves(m, blocks, <<>>)
             root == build_recursive(nodes.m, nodes.v)
         IN Ret(root.m, [root |-> Some(root.v), leaves |-> <<>>])

\* Mutation of MerkleTree::new: an odd input is padded with its last block
\* before the leaves are made, so the padding leaf is hashed from the block.
MerkleTree_new_pad_data(m, blocks) ==
    IF blocks = <<>> THEN Ret(m, [root |-> None, leaves |-> <<>>])
    ELSE LET padded == IF Len(blocks) > 1 /\ Len(blocks) % 2 # 0
                       THEN Append(blocks, blocks[Len(blocks)]) ELSE blocks
             nodes == collect_leaves(m, padded, <<>>)
             root == build_recursive(nodes.m, nodes.v)
         IN Ret(root.m, [root |-> Some(root.v), leaves |-> blocks])

MerkleTree_new(m, blocks) ==
    IF blocks = <<>> THEN Ret(m, [root |-> None, leaves |-> <<>>])
    ELSE LET nodes == collect_leaves(m, blocks, <<>>)
             root == build_recursive(nodes.m, nodes.v)
         IN Ret(root.m, [root |-> Some(root.v), leaves |-> blocks])

\* Mutation of root_hash: without a root, the digest of the empty string.
root_hash_hashed_sentinel(h, self) ==
    IF self.root = None THEN mock_hash(<<>>) ELSE h[self.root[1]].hash

\* Mutation of root_hash: the digest is moved out of the root by the first
\* call, a later call finds none.
root_hash_take(h, self) ==
    IF self.root = None \/ digest # None THEN <<>> ELSE h[self.root[1]].hash

\* Mutation of root_hash: a root without children is taken for no root.
root_hash_internal_only(h, self) ==
    IF self.root = None \/ h[self.root[1]].left = None THEN <<>>
    ELSE h[self.root[1]].hash

root_hash(h, self) ==
    IF self.root = None THEN <<>> ELSE h[self.root[1]].hash

----------------------------------------------------------------------------
(* The program: a first tree is built and kept alive while a second one is *)
(* built; root_hash() reads the latest.                                   *)

\* the blocks the inputs are made of: under hash function 0 the first is its
\* own digest written twice and the digest of the second is the first
Blocks == {<<"b", "b">>, <<"T", "h">>}

\* two inputs of six blocks whose three pairs of neighbours differ
SixBlocks ==
    { << <<"b", "b">>, <<"b", "b">>, <<"b", "b">>, <<"T", "h">>, <<"T", "h">>, <<"b", "b">> >>,
      << <<"T", "h">>, <<"b", "b">>, <<"T", "h">>, <<"T", "h">>, <<"b", "b">>, <<"b", "b">> >> }

\* the inputs of one block that is the digests of two blocks, one after the
\* other
DigestPairs == {<<mock_hash(a) \o mock_hash(b)>> : a, b \in Blocks}

\* the inputs given to MerkleTree::new: every sequence of at most MaxLen
\* blocks, the two of six, and the digest pairs
Inputs == UNION {[1..n -> Blocks] : n \in 0..MaxLen} \cup SixBlocks \cup DigestPairs

transactions ==
    << <<"T", "x", "1", ":", " ", "A", "l", "i", "c", "e", "-", ">", "B", "o", "b">>,
       <<"T", "x", "2", ":", " ", "B", "o", "b", "-", ">", "C", "h", "a", "r", "l", "i", "e">>,
       <<"T", "x", "3", ":", " ", "C", "h", "a", "r", "l", "i", "e", "-", ">", "D", "a", "v", "e">> >>

Init ==
    /\ key \in 0..MaxKey
    /\ heap = <<>>
    /\ tree = None
    /\ prev = None
    /\ data = <<>>
    /\ prev_data = <<>>
    /\ log = <<>>
    /\ prev_log = <<>>
    /\ fault = "none"
    /\ digest = None
    /\ verified = "not run"
    /\ levels = <<>>
    /\ builds = <<>>
    /\ sync = <<>>
    /\ chan = <<>>

\* A build may start: the program has not panicked and holds at most one
\* tree.  Two builds are followed, every pair of inputs is reached.
CanBuild == fault = "none" /\ prev = None

\* let t = MerkleTree::new(data), where `built` is what the call returned;
\* the tree built before stays alive as `prev`.
Commit(blocks, built) ==
    /\ fault' = built.m.fault
    /\ IF built.m.fault = "none"
       THEN /\ heap' = built.m.heap
            /\ tree' = Some(built.v)
            /\ prev' = tree
            /\ data' = blocks
            /\ prev_data' = data
            /\ log' = built.m.log
            /\ prev_log' = log
            /\ levels' = built.m.levels
       ELSE UNCHANGED <<heap, tree, prev, data, prev_data, log, prev_log, levels>>
    /\ UNCHANGED key

New ==
    /\ CanBuild
    /\ \E blocks \in Inputs :
           \E built \in {MerkleTree_new(Machine(heap), blocks)} :
               /\ Commit(blocks, built)
               /\ digest' = None
               /\ verified' = "not run"
    /\ UNCHANGED <<builds, sync, chan>>

\* tree.root_hash()
RootHash ==
    /\ fault = "none"
    /\ tree # None
    /\ digest' = Some(root_hash(heap, tree[1]))
    /\ UNCHANGED <<key, heap, tree, prev, data, prev_data, log, prev_log, fault, verified,
                   levels, builds, sync, chan>>

\* run(): build the tree of the three transactions, print its root, recompute
\* the root by hand from tree.leaves and compare with tree.root_hash().
Run ==
    /\ CanBuild
    /\ \E built \in {MerkleTree_new(Machine(heap), transactions)} :
           /\ Commit(transactions, built)
           /\ IF built.m.fault # "none"
              THEN digest' = None /\ verified' = "not run"
              ELSE LET leaves == built.v.leaves
                       h1 == mock_hash(leaves[1])
                       h2 == mock_hash(leaves[2])
                       h3 == mock_hash(leaves[3])
                       h4 == h3
                       p1 == mock_hash(h1 \o h2)
                       p2 == mock_hash(h3 \o h4)
                       expected_root == mock_hash(p1 \o p2)
                   IN /\ digest' = Some(root_hash(built.m.heap, built.v))
                      /\ verified' = IF root_hash(built.m.heap, built.v) = expected_root
                                     THEN "success" ELSE "failed"
    /\ UNCHANGED <<builds, sync, chan>>

Next == New \/ RootHash \/ Run

Spec == Init /\ [][Next]_vars

----------------------------------------------------------------------------
(* Concurrent builds: NumBuilds threads each call MerkleTree::new on an     *)
(* input of their own.  A step of a thread is one pass through a loop body  *)
(* or one branch of the code; the steps of the threads interleave.  The     *)
(* threads share the allocator and nothing else: box k of thread t is at    *)
(* address <<t, k>> (an allocator with one arena per thread).               *)

Builds == 1..NumBuilds

\* the input of n blocks thread t may be given: the two blocks in turn; the
\* first is one block on the odd threads and the other on the even ones
ConcInput(t, n) ==
    [i \in 1..n |-> IF (i + t) % 2 = 0 THEN <<"b", "b">> ELSE <<"T", "h">>]

\* the frame of a call MerkleTree::new(blocks) that has not run yet
Started(blocks) ==
    [pc |-> "new", data |-> blocks, todo |-> <<>>, nodes |-> <<>>, iter |-> <<>>,
     next_level |-> <<>>, log |-> <<>>, tree |-> None]

\* Mutation of Box_new_in: boxes are interned, a node equal to a live one
\* gets the box of that one.
Box_new_in_interned(t, m, node) ==
    LET k == Cardinality({a \in DOMAIN m.heap : a[1] = t}) + 1
        same == {a \in DOMAIN m.heap : m.heap[a] = node}
    IN IF same # {} THEN Ret(m, CHOOSE a \in same : TRUE)
       ELSE Ret([m EXCEPT !.heap = (<<t, k>> :> node) @@ m.heap], <<t, k>>)

\* Box::new on thread t: the next box of the thread's arena
Box_new_in(t, m, node) ==
    LET k == Cardinality({a \in DOMAIN m.heap : a[1] = t}) + 1
    IN Ret([m EXCEPT !.heap = (<<t, k>> :> node) @@ m.heap], <<t, k>>)

\* <Box<Node> as Clone>::clone on thread t
RECURSIVE Box_clone_in(_, _, _)
Box_clone_in(t, m, p) ==
    LET n == m.heap[p]
        l == IF n.left = None THEN Ret(m, None)
             ELSE LET c == Box_clone_in(t, m, n.left[1]) IN Ret(c.m, Some(c.v))
        r == IF n.right = None THEN Ret(l.m, None)
             ELSE LET c == Box_clone_in(t, l.m, n.right[1]) IN Ret(c.m, Some(c.v))
    IN Box_new_in(t, r.m, [hash |-> n.hash, left |-> l.v, right |-> r.v])

ConcInit ==
    /\ key \in 0..MaxKey
    /\ heap = <<>>
    /\ tree = None
    /\ prev = None
    /\ data = <<>>
    /\ prev_data = <<>>
    /\ log = <<>>
    /\ prev_log = <<>>
    /\ fault = "none"
    /\ digest = None
    /\ verified = "not run"
    /\ levels = <<>>
    /\ sync = <<>>
    /\ chan = <<>>
    /\ \E n \in [Builds -> 0..ConcLen] :
           builds = [t \in Builds |-> Started(ConcInput(t, n[t]))]

\* the machine thread t runs on: the shared heap, the thread's own log
MachineOf(t) == [Machine(heap) EXCEPT !.log = builds[t].log]

\* thread t goes to frame b on machine m
Step(t, b, m) ==
    /\ builds' = [builds EXCEPT ![t] = [b EXCEPT !.log = m.log]]
    /\ heap' = m.heap
    /\ fault' = m.fault
    /\ UNCHANGED <<key, tree, prev, data, prev_data, log, prev_log, digest, verified, levels,
                   sync, chan>>

\* if data.is_empty() { return MerkleTree { root: None, leaves: vec![] }; }
step_new(t) ==
    /\ fault = "none"
    /\ builds[t].pc = "new"
    /\ LET b == builds[t]
       IN IF b.data = <<>>
          THEN Step(t, [b EXCEPT !.pc = "done",
                                 !.tree = Some([root |-> None, leaves |-> <<>>])],
                    MachineOf(t))
          ELSE Step(t, [b EXCEPT !.pc = "leaves", !.todo = b.data], MachineOf(t))

\* one block of data.iter().map(|d| Box::new(Node::new_leaf(d))).collect()
step_leaf(t) ==
    /\ fault = "none"
    /\ builds[t].pc = "leaves"
    /\ LET b == builds[t]
           leaf == new_leaf(MachineOf(t), Head(b.todo))
           boxed == Box_new_in(t, leaf.m, leaf.v)
       IN Step(t, [b EXCEPT !.todo = Tail(b.todo),
                            !.nodes = Append(b.nodes, boxed.v),
                            !.pc = IF Tail(b.todo) = <<>> THEN "build" ELSE "leaves"],
               boxed.m)

\* entry of build_recursive(nodes): the base case returns the root to new,
\* which returns the tree; otherwise the level is padded or paired.
step_build_recursive(t) ==
    /\ fault = "none"
    /\ builds[t].pc = "build"
    /\ LET b == builds[t]
       IN IF Len(b.nodes) = 1
          THEN Step(t, [b EXCEPT !.pc = "done", !.nodes = <<>>,
                                 !.tree = Some([root |-> Some(b.nodes[1]),
                                                leaves |-> b.data])],
                    MachineOf(t))
          ELSE IF b.nodes = <<>>
               THEN Step(t, b, Panic(MachineOf(t), "stack overflow"))
               ELSE IF Len(b.nodes) % 2 # 0
                    THEN Step(t, [b EXCEPT !.pc = "pad"], MachineOf(t))
                    ELSE Step(t, [b EXCEPT !.pc = "pair", !.iter = b.nodes,
                                           !.nodes = <<>>, !.next_level = <<>>],
                              MachineOf(t))

\* let last = nodes.last().unwrap().clone(); nodes.push(last);
step_pad(t) ==
    /\ fault = "none"
    /\ builds[t].pc = "pad"
    /\ LET b == builds[t]
           last == Box_clone_in(t, MachineOf(t), b.nodes[Len(b.nodes)])
       IN Step(t, [b EXCEPT !.pc = "pair", !.iter = Append(b.nodes, last.v),
                            !.nodes = <<>>, !.next_level = <<>>],
               last.m)

\* one pass of while let Some(left) = iter.next() { .. }
step_pair(t) ==
    /\ fault = "none"
    /\ builds[t].pc = "pair"
    /\ builds[t].iter # <<>>
    /\ LET b == builds[t]
       IN IF Len(b.iter) = 1
          THEN Step(t, b, Panic(MachineOf(t), "node count should be even"))
          ELSE LET parent == new_internal(MachineOf(t), b.iter[1], b.iter[2])
                   boxed == Box_new_in(t, parent.m, parent.v)
               IN Step(t, [b EXCEPT !.iter = SubSeq(b.iter, 3, Len(b.iter)),
                                    !.next_level = Append(b.next_level, boxed.v)],
                       boxed.m)

\* the iterator is empty: Self::build_recursive(next_level)
step_recurse(t) ==
    /\ fault = "none"
    /\ builds[t].pc = "pair"
    /\ builds[t].iter = <<>>
    /\ LET b == builds[t]
       IN Step(t, [b EXCEPT !.pc = "build", !.nodes = b.next_level,
                            !.next_level = <<>>],
               MachineOf(t))

ConcNext ==
    \E t \in Builds :
        \/ step_new(t)
        \/ step_leaf(t)
        \/ step_build_recursive(t)
        \/ step_pad(t)
        \/ step_pair(t)
        \/ step_recurse(t)

ConcSpec == ConcInit /\ [][ConcNext]_vars

----------------------------------------------------------------------------
(***************************************************************************)
(* The shared account of s04_concurrency/ex02_sync.rs: run() puts a        *)
(* balance of 0 behind a mutex, spawns the threads of `for i in 0..10`,    *)
(* each of which locks the account, adds to it, prints the balance and     *)
(* releases the lock when its guard goes out of scope; run() then joins    *)
(* the threads in the order it spawned them and prints the balance.        *)
(* `*num += 10` is a read and a write of the integer behind the guard;     *)
(* the two are separate steps, so that a lock that let two threads in      *)
(* would show as a lost deposit.  A printed line is recorded by the        *)
(* balance it shows.                                                       *)
(***************************************************************************)
NumThreads == 10

Deposit == 10

Threads == 0..(NumThreads - 1)

\* let account = Arc::new(Mutex::new(0)); let mut handles = vec![];
account_new ==
    [data     |-> 0,                        \* the integer in the mutex
     holder   |-> None,                     \* Option<thread> holding the guard
     acquired |-> 0,                        \* how many times lock() returned
     pc       |-> [i \in Threads |-> "unspawned"],
     num      |-> [i \in Threads |-> 0],    \* the value read by `*num += 10`
     spawned  |-> 0,                        \* the `i` of the spawning loop
     joined   |-> 0,                        \* handles joined so far
     out      |-> <<>>,                     \* balances printed by the threads
     final    |-> None,                     \* Option<balance printed by run()>
     main     |-> "spawn"]

SyncInit ==
    /\ key = 0
    /\ heap = <<>>
    /\ tree = None
    /\ prev = None
    /\ data = <<>>
    /\ prev_data = <<>>
    /\ log = <<>>
    /\ prev_log = <<>>
    /\ fault = "none"
    /\ digest = None
    /\ verified = "not run"
    /\ levels = <<>>
    /\ builds = <<>>
    /\ chan = <<>>
    /\ sync = account_new

SyncStep(s) ==
    /\ sync' = s
    /\ UNCHANGED <<key, heap, tree, prev, data, prev_data, log, prev_log, fault, digest,
                   verified, levels, builds, chan>>

\* Mutation of Mutex_unlocked: a lock that never makes a thread wait.
Mutex_unlocked_always(s) == TRUE

\* lock() returns when no guard of the mutex is alive, and blocks until then
Mutex_unlocked(s) == s.holder = None

\* for i in 0..10 { let account_ref = Arc::clone(&account);
\*                  let handle = thread::spawn(move || {...}); handles.push(handle); }
main_spawn ==
    /\ sync.main = "spawn"
    /\ LET i == sync.spawned
       IN SyncStep([sync EXCEPT !.pc[i] = "lock",
                                !.spawned = i + 1,
                                !.main = IF i + 1 = NumThreads THEN "join" ELSE "spawn"])

\* let mut num = account_ref.lock().unwrap();
thread_lock(i) ==
    /\ sync.pc[i] = "lock"
    /\ Mutex_unlocked(sync)
    /\ SyncStep([sync EXCEPT !.holder = Some(i),
                             !.acquired = @ + 1,
                             !.pc[i] = "load"])

\* *num += 10;  (the read)
thread_load(i) ==
    /\ sync.pc[i] = "load"
    /\ SyncStep([sync EXCEPT !.num[i] = sync.data, !.pc[i] = "store"])

\* *num += 10;  (the write)
thread_store(i) ==
    /\ sync.pc[i] = "store"
    /\ SyncStep([sync EXCEPT !.data = sync.num[i] + Deposit,
                             !.num[i] = 0,
                             !.pc[i] = "print"])

\* println!("Thread {} deposited 10. Balance: {}", i, *num);
thread_print(i) ==
    /\ sync.pc[i] = "print"
    /\ SyncStep([sync EXCEPT !.out = Append(@, sync.data), !.pc[i] = "drop"])

\* the closure ends: the guard `num` is dropped and the lock released
thread_drop(i) ==
    /\ sync.pc[i] = "drop"
    /\ SyncStep([sync EXCEPT !.holder = None, !.pc[i] = "done"])

\* for handle in handles { handle.join().unwrap(); }
main_join ==
    /\ sync.main = "join"
    /\ sync.pc[sync.joined] = "done"
    /\ SyncStep([sync EXCEPT !.joined = @ + 1,
                             !.main = IF sync.joined + 1 = NumThreads
                                      THEN "final" ELSE "join"])

\* println!("Final Balance: {}", *account.lock().unwrap());
main_final ==
    /\ sync.main = "final"
    /\ Mutex_unlocked(sync)
    /\ SyncStep([sync EXCEPT !.final = Some(sync.data),
                             !.acquired = @ + 1,
                             !.main = "done"])

SyncNext ==
    \/ main_spawn
    \/ main_join
    \/ main_final
    \/ \E i \in Threads :
           \/ thread_lock(i)
           \/ thread_load(i)
           \/ thread_store(i)
           \/ thread_print(i)
           \/ thread_drop(i)

SyncSpec == SyncInit /\ [][SyncNext]_vars

----------------------------------------------------------------------------
(***************************************************************************)
(* The transaction pool of s04_concurrency/ex03_channel.rs: run() opens an *)
(* mpsc channel, gives a clone of the sender (tx1) to wallet A and the     *)
(* sender itself (tx) to wallet B, and receives in a `for` loop over rx    *)
(* until the channel is empty and disconnected.  A wallet prints, sends    *)
(* and sleeps for each of its transactions, and drops its sender when its  *)
(* closure ends.  The channel is an unbounded queue: send() never blocks   *)
(* and fails only when the receiver is gone.  Sleeps take no part in the   *)
(* model other than as steps: every interleaving is followed.              *)
(***************************************************************************)
Wallets == {"A", "B"}

\* let txs = vec![...] of each wallet
txs(w) == IF w = "A" THEN <<"Tx_A1", "Tx_A2", "Tx_A3">> ELSE <<"Tx_B1", "Tx_B2">>

\* the sender a wallet's closure owns: tx1 = tx.clone() for A, tx for B
SenderOf(w) == IF w = "A" THEN "tx1" ELSE "tx"

\* let (tx, rx) = mpsc::channel();
channel ==
    [queue    |-> <<>>,                        \* messages sent and not received
     senders  |-> {"tx"},                      \* the Sender handles alive
     rx       |-> TRUE,                        \* the Receiver is alive
     pc       |-> [w \in Wallets |-> "unspawned"],
     todo     |-> [w \in Wallets |-> txs(w)],  \* what `for t in txs` has left
     t        |-> [w \in Wallets |-> None],    \* Option<the t of the iteration>
     received |-> <<>>,                        \* what the loop over rx got
     main     |-> "spawn_a"]

ChanInit ==
    /\ key = 0
    /\ heap = <<>>
    /\ tree = None
    /\ prev = None
    /\ data = <<>>
    /\ prev_data = <<>>
    /\ log = <<>>
    /\ prev_log = <<>>
    /\ fault = "none"
    /\ digest = None
    /\ verified = "not run"
    /\ levels = <<>>
    /\ builds = <<>>
    /\ sync = <<>>
    /\ chan = channel

ChanStep(c) ==
    /\ chan' = c
    /\ UNCHANGED <<key, heap, tree, prev, data, prev_data, log, prev_log, fault, digest,
                   verified, levels, builds, sync>>

\* Mutation of send: a channel that hands out the newest message first.
send_front(queue, msg) == <<msg>> \o queue

\* Sender::send on a connected channel: the message joins the end of the queue
send(queue, msg) == Append(queue, msg)

\* let tx1 = tx.clone(); thread::spawn(move || {...});   (wallet A)
main_spawn_a ==
    /\ chan.main = "spawn_a"
    /\ ChanStep([chan EXCEPT !.senders = @ \cup {"tx1"},
                             !.pc["A"] = "loop",
                             !.main = "spawn_b"])

\* thread::spawn(move || {...});   (wallet B, `tx` moves into the closure)
\* println!("Node: Waiting for transactions...");
main_spawn_b ==
    /\ chan.main = "spawn_b"
    /\ ChanStep([chan EXCEPT !.pc["B"] = "loop", !.main = "recv"])

\* for t in txs { println!("Wallet _ sending: {}", t);
wallet_print(w) ==
    /\ chan.pc[w] = "loop"
    /\ chan.todo[w] # <<>>
    /\ ChanStep([chan EXCEPT !.t[w] = Some(Head(chan.todo[w])),
                             !.todo[w] = Tail(@),
                             !.pc[w] = "send"])

\* tx.send(String::from(t)).unwrap();  send is an Err once the receiver is
\* dropped, and unwrap() then panics: the thread unwinds and drops its sender
wallet_send(w) ==
    /\ chan.pc[w] = "send"
    /\ IF chan.rx
       THEN ChanStep([chan EXCEPT !.queue = send(@, chan.t[w][1]),
                                  !.t[w] = None,
                                  !.pc[w] = "sleep"])
       ELSE ChanStep([chan EXCEPT !.senders = @ \ {SenderOf(w)},
                                  !.t[w] = None,
                                  !.pc[w] = "panicked"])

\* thread::sleep(Duration::from_millis(_)); }
wallet_sleep(w) ==
    /\ chan.pc[w] = "sleep"
    /\ ChanStep([chan EXCEPT !.pc[w] = "loop"])

\* the loop over txs is over and the closure ends: its sender is dropped
wallet_exit(w) ==
    /\ chan.pc[w] = "loop"
    /\ chan.todo[w] = <<>>
    /\ ChanStep([chan EXCEPT !.senders = @ \ {SenderOf(w)}, !.pc[w] = "done"])

\* for received in rx { println!("Node: Got {}", received); }
\* the iterator blocks on an empty queue while a sender is alive
main_recv ==
    /\ chan.main = "recv"
    /\ chan.queue # <<>>
    /\ ChanStep([chan EXCEPT !.received = Append(@, Head(chan.queue)),
                             !.queue = Tail(@)])

\* the iterator returns None: the queue is empty and every sender is dropped
\* println!("Node: All senders disconnected. Exiting.");  rx is dropped
main_exit ==
    /\ chan.main = "recv"
    /\ chan.queue = <<>>
    /\ chan.senders = {}
    /\ ChanStep([chan EXCEPT !.rx = FALSE, !.main = "done"])

main_step == main_spawn_a \/ main_spawn_b \/ main_recv \/ main_exit

wallet_step(w) == wallet_print(w) \/ wallet_send(w) \/ wallet_sleep(w) \/ wallet_exit(w)

ChanNext ==
    \/ main_spawn_a
    \/ main_spawn_b
    \/ main_recv
    \/ main_exit
    \/ \E w \in Wallets :
           \/ wallet_print(w)
           \/ wallet_send(w)
           \/ wallet_sleep(w)
           \/ wallet_exit(w)

\* Every thread that can take a step is scheduled in the end, and a sleep ends.
ChanSpec ==
    /\ ChanInit
    /\ [][ChanNext]_vars
    /\ WF_vars(main_step)
    /\ \A w \in Wallets : WF_vars(wallet_step(w))

----------------------------------------------------------------------------
(* Vocabulary of the properties *)

H(x) == mock_hash(x)

\* the root digests of the two trees, as root_hash() returns them
RootOfTree == root_hash(heap, tree[1])
RootOfPrev == root_hash(heap, prev[1])

BothBuilt == tree # None /\ prev # None

\* the nodes of a tree, and those without children
NodesOf(t) == IF t.root = None THEN {} ELSE Subtree(heap, t.root[1])
LeafNodesOf(t) == {p \in NodesOf(t) : heap[p].left = None /\ heap[p].right = None}

\* the boxes without children below box p, from left to right
RECURSIVE Frontier(_, _)
Frontier(h, p) ==
    IF h[p].left = None /\ h[p].right = None THEN <<p>>
    ELSE (IF h[p].left = None THEN <<>> ELSE Frontier(h, h[p].left[1]))
             \o (IF h[p].right = None THEN <<>> ELSE Frontier(h, h[p].right[1]))

\* The blocks a tree of the blocks d has at its leaves, padding copies
\* included: d as a level of one-block groups, reduced as the nodes are (an odd
\* level gets its last group again, then neighbours are joined two by two).
RECURSIVE JoinPairs(_)
JoinPairs(groups) ==
    IF Len(groups) < 2 THEN <<>>
    ELSE <<groups[1] \o groups[2]>> \o JoinPairs(SubSeq(groups, 3, Len(groups)))

RECURSIVE ReduceGroups(_)
ReduceGroups(groups) ==
    IF Len(groups) = 1 THEN groups[1]
    ELSE ReduceGroups(JoinPairs(IF Len(groups) % 2 # 0
                                THEN Append(groups, groups[Len(groups)])
                                ELSE groups))

PaddedBlocks(d) == IF d = <<>> THEN <<>> ELSE ReduceGroups([i \in 1..Len(d) |-> <<d[i]>>])

Range(s) == {s[i] : i \in 1..Len(s)}

\* the number of positions of s that hold b
Count(s, b) == Cardinality({i \in 1..Len(s) : s[i] = b})

\* t is s with its positions permuted
SameBlocks(s, t) ==
    /\ Len(s) = Len(t)
    /\ \A b \in Range(s) \cup Range(t) : Count(s, b) = Count(t, b)

\* t = p(s) for some permutation p of the positions other than the identity:
\* when t differs from s every p with t = p(s) is one, and when t = s there is
\* one exactly when two positions of s hold the same block (swap them).
NonIdentityPermutation(s, t) ==
    /\ SameBlocks(s, t)
    /\ (s # t \/ \E i, j \in 1..Len(s) : i < j /\ s[i] = s[j])

\* the strings given to the hash function by the two builds
HashedStrings == Range(log) \cup Range(prev_log)

\* the hash function has no collision among the strings the builds hashed
InjectiveOnHashed ==
    Cardinality({H(x) : x \in HashedStrings}) = Cardinality(HashedStrings)

\* all digests of the two builds have one length, so that a concatenation of
\* two of them splits in one way only
FixedWidth == Cardinality({Len(H(x)) : x \in HashedStrings}) <= 1

\* the strings hashed for the internal nodes of the two builds (each the
\* concatenation of two digests): the log entries after those of the leaves
InternalInputs ==
    {log[i] : i \in (Len(data) + 1)..Len(log)}
        \cup {prev_log[i] : i \in (Len(prev_data) + 1)..Len(prev_log)}

\* no block is itself the concatenation of the digests of two sibling nodes
NoBlockIsDigestPair ==
    (Range(data) \cup Range(prev_data)) \cap InternalInputs = {}

----------------------------------------------------------------------------
\* C1 (Determinism): two builds of the same input sequence, under the same
\* hash function, have the same root digest.
C1_Determinism ==
    (BothBuilt /\ data = prev_data) => RootOfTree = RootOfPrev

\* a three-block input was built twice and root_hash() was read
C1_Witness ==
    /\ BothBuilt
    /\ data = prev_data
    /\ Len(data) = 3
    /\ digest = Some(RootOfPrev)

\* C2 (Odd-length padding): the root of a tree built from three blocks a, b, c
\* is hash(hash(hash(a)++hash(b)) ++ hash(hash(c)++hash(c))), and the manual
\* verification of run() on its three transactions never fails.
C2_OddPadding ==
    /\ (tree # None /\ Len(data) = 3) =>
           RootOfTree = H(H(H(data[1]) \o H(data[2])) \o H(H(data[3]) \o H(data[3])))
    /\ verified # "failed"

\* run() has verified its three transactions after a three-block build
C2_Witness ==
    /\ verified = "success"
    /\ data = transactions
    /\ prev # None
    /\ Len(prev_data) = 3

\* C3 (Even input): the root of a tree built from four blocks A, B, C, D is
\* hash(hash(hash(A)++hash(B)) ++ hash(hash(C)++hash(D))); the build makes no
\* copy: the tree has the four leaves and three internal nodes, seven hash
\* calls were made and every box of the heap belongs to one of the two trees.
C3_EvenInput ==
    (tree # None /\ Len(data) = 4) =>
        /\ RootOfTree = H(H(H(data[1]) \o H(data[2])) \o H(H(data[3]) \o H(data[4])))
        /\ Cardinality(LeafNodesOf(tree[1])) = 4
        /\ Cardinality(NodesOf(tree[1])) = 7
        /\ Len(log) = 7
        /\ DOMAIN heap = NodesOf(tree[1]) \cup (IF prev = None THEN {} ELSE NodesOf(prev[1]))

\* a tree of four blocks, not all equal, was built and its root read
C3_Witness ==
    /\ tree # None
    /\ Len(data) = 4
    /\ data[1] # data[2]
    /\ data[3] # data[4]
    /\ digest = Some(RootOfTree)

\* C4 (Single input): the root of a tree built from one block b is the leaf of
\* b itself: its digest is hash(b), it has no children, it is the only node
\* of the tree and the build made the one hash call of that leaf.
C4_SingleInput ==
    (tree # None /\ Len(data) = 1) =>
        /\ RootOfTree = H(data[1])
        /\ tree[1].root # None
        /\ heap[tree[1].root[1]].left = None
        /\ heap[tree[1].root[1]].right = None
        /\ NodesOf(tree[1]) = {tree[1].root[1]}
        /\ log = <<data[1]>>

\* a one-block tree was built and its root read
C4_Witness ==
    /\ tree # None
    /\ Len(data) = 1
    /\ digest = Some(H(data[1]))

\* C5 (Empty input): the tree built from no block has no root and no leaves,
\* was built without a hash call and without a box, and root_hash() returns
\* the empty string on it.
C5_EmptyInput ==
    (tree # None /\ data = <<>>) =>
        /\ tree[1].root = None
        /\ tree[1].leaves = <<>>
        /\ Len(tree[1].leaves) = 0
        /\ log = <<>>
        /\ NodesOf(tree[1]) = {}
        /\ RootOfTree = <<>>
        /\ digest \in {None, Some(<<>>)}

\* root_hash() was read on the tree of the empty input
C5_Witness ==
    /\ tree # None
    /\ data = <<>>
    /\ digest = Some(<<>>)

\* C6 (Totality): no build panics or overflows the stack, whatever the length
\* of the input, and what it returns is a tree: no root, or a root box that is
\* live.
C6_Totality ==
    /\ fault = "none"
    /\ tree # None => (tree[1].root = None \/ tree[1].root[1] \in DOMAIN heap)

\* builds of the empty input and of an odd input of five blocks returned
C6_Witness ==
    /\ BothBuilt
    /\ prev_data = <<>>
    /\ Len(data) = 5
    /\ fault = "none"

\* C7 (Leaf retention): leaves is the input, block by block in its order; its
\* length is the number of blocks given, whatever was copied for padding.
C7_LeafRetention ==
    tree # None =>
        /\ tree[1].leaves = data
        /\ Len(tree[1].leaves) = Len(data)

\* a tree of five blocks holds eight leaf nodes and five leaves
C7_Witness ==
    /\ tree # None
    /\ Len(data) = 5
    /\ Len(tree[1].leaves) = 5
    /\ Cardinality(LeafNodesOf(tree[1])) = 8

\* C8 (Tree invariant): in every tree, leaves is empty exactly when there is
\* no root.
C8_LeavesIffRoot ==
    \A t \in Range(tree) \cup Range(prev) :
        (t.leaves = <<>>) <=> (t.root = None)

\* an empty tree and a tree with a root are both alive
C8_Witness ==
    /\ BothBuilt
    /\ prev[1].leaves = <<>> /\ prev[1].root = None
    /\ tree[1].leaves # <<>> /\ tree[1].root # None

\* C9 as stated (Order sensitivity): for an input with at least two distinct
\* blocks and a hash function without collisions, every permutation of the
\* positions other than the identity changes the root digest.
C9_AsStated ==
    (/\ BothBuilt
     /\ Cardinality(Range(prev_data)) >= 2
     /\ NonIdentityPermutation(prev_data, data)
     /\ InjectiveOnHashed) => RootOfTree # RootOfPrev

\* C9 as amended (Order sensitivity): a permutation of the positions that
\* changes the sequence changes the root digest, for a hash function without
\* collisions whose digests have one length.
C9_OrderSensitivity ==
    (/\ BothBuilt
     /\ SameBlocks(prev_data, data)
     /\ data # prev_data
     /\ InjectiveOnHashed
     /\ FixedWidth) => RootOfTree # RootOfPrev

\* a five-block input and a reordering of it were built, no collision
C9_Witness ==
    /\ BothBuilt
    /\ Len(data) = 5
    /\ SameBlocks(prev_data, data)
    /\ data # prev_data
    /\ InjectiveOnHashed
    /\ FixedWidth
    /\ digest = Some(RootOfTree)

\* C10 as stated (Whole-sequence duplication): for a hash function without
\* collisions, the tree of S ++ S and the tree of S have different root digests.
C10_AsStated ==
    (/\ BothBuilt
     /\ data = prev_data \o prev_data
     /\ InjectiveOnHashed) => RootOfTree # RootOfPrev

\* C10 as amended (Whole-sequence duplication): for a non-empty S, the tree of
\* S ++ S and the tree of S have different root digests, for a hash function
\* without collisions whose digests have one length, when no block is the
\* concatenation of the digests of two sibling nodes.
C10_WholeDuplication ==
    (/\ BothBuilt
     /\ prev_data # <<>>
     /\ data = prev_data \o prev_data
     /\ InjectiveOnHashed
     /\ FixedWidth
     /\ NoBlockIsDigestPair) => RootOfTree # RootOfPrev

\* a two-block input with distinct blocks and its doubling were built
C10_Witness ==
    /\ BothBuilt
    /\ Len(prev_data) = 2
    /\ prev_data[1] # prev_data[2]
    /\ data = prev_data \o prev_data
    /\ InjectiveOnHashed
    /\ FixedWidth
    /\ NoBlockIsDigestPair
    /\ digest = Some(RootOfTree)

\* C11 as stated (Commitment): for a hash function without collisions, two
\* different input sequences have different root digests.
C11_AsStated ==
    (/\ BothBuilt
     /\ data # prev_data
     /\ InjectiveOnHashed) => RootOfTree # RootOfPrev

\* C11 as amended (Commitment): two different input sequences of the same
\* length have different root digests, for a hash function without collisions
\* whose digests have one length.
C11_Commitment ==
    (/\ BothBuilt
     /\ data # prev_data
     /\ Len(data) = Len(prev_data)
     /\ InjectiveOnHashed
     /\ FixedWidth) => RootOfTree # RootOfPrev

\* two five-block inputs that differ in their last block only were built
C11_Witness ==
    /\ BothBuilt
    /\ Len(data) = 5
    /\ Len(prev_data) = 5
    /\ SubSeq(data, 1, 4) = SubSeq(prev_data, 1, 4)
    /\ data[5] # prev_data[5]
    /\ InjectiveOnHashed
    /\ FixedWidth
    /\ digest = Some(RootOfTree)

\* C12 (Node shape): every node of a built tree has no child or two children,
\* never one, and the children of a node are live boxes.
C12_NodeShape ==
    \A t \in Range(tree) \cup Range(prev) :
        \A p \in NodesOf(t) :
            /\ (heap[p].left = None) <=> (heap[p].right = None)
            /\ heap[p].left # None => heap[p].left[1] \in DOMAIN heap
            /\ heap[p].right # None => heap[p].right[1] \in DOMAIN heap

\* a tree of three blocks stands: leaves, a padding copy, internal nodes whose
\* two children are distinct boxes
C12_Witness ==
    /\ tree # None
    /\ Len(data) = 3
    /\ Cardinality(LeafNodesOf(tree[1])) = 4
    /\ Cardinality(NodesOf(tree[1]) \ LeafNodesOf(tree[1])) = 3
    /\ \A p \in NodesOf(tree[1]) \ LeafNodesOf(tree[1]) :
           /\ heap[p].left # None
           /\ heap[p].right # None
           /\ heap[p].left # heap[p].right

\* the digests of the tree t built from the blocks d are those of its content
DigestsOf(t, d) ==
    /\ \A p \in NodesOf(t) \ LeafNodesOf(t) :
           /\ heap[p].left # None
           /\ heap[p].right # None
           /\ heap[p].hash = H(heap[heap[p].left[1]].hash \o heap[heap[p].right[1]].hash)
    /\ t.root # None =>
           LET leaf == Frontier(heap, t.root[1])
               block == PaddedBlocks(d)
           IN /\ Len(leaf) = Len(block)
              /\ \A i \in 1..Len(leaf) : heap[leaf[i]].hash = H(block[i])

\* a step leaves every box alive, with the digest it has
DigestsKept ==
    \A p \in DOMAIN heap : p \in DOMAIN heap' /\ heap'[p].hash = heap[p].hash

\* C13 (Digest invariant): in every built tree the digest of a leaf is the hash
\* of its block, padding copies included, and the digest of an internal node is
\* the hash of its left child's digest followed by its right child's; no step
\* of the program changes the digest of a node.
C13_DigestInvariant ==
    /\ [](/\ tree # None => DigestsOf(tree[1], data)
          /\ prev # None => DigestsOf(prev[1], prev_data))
    /\ [][DigestsKept]_vars

\* a tree of five blocks, not all equal, stands next to an older tree
C13_Witness ==
    /\ BothBuilt
    /\ Len(data) = 5
    /\ data[4] # data[5]
    /\ Len(prev_data) = 3
    /\ Len(Frontier(heap, tree[1].root[1])) = 8
    /\ digest = Some(RootOfTree)

\* the boxes a node owns directly
Children(p) == Range(heap[p].left) \cup Range(heap[p].right)

\* the fields of live nodes that hold a box, as <<node, field>>
Links ==
    {<<q, "left">> : q \in {r \in DOMAIN heap : heap[r].left # None}}
        \cup {<<q, "right">> : q \in {r \in DOMAIN heap : heap[r].right # None}}

\* the box a field holds
Held(link) == IF link[2] = "left" THEN heap[link[1]].left[1] ELSE heap[link[1]].right[1]

\* the root boxes of the live trees
Roots == {t.root[1] : t \in {u \in Range(tree) \cup Range(prev) : u.root # None}}

\* the boxes reached from the boxes of S by going down
RECURSIVE Below(_)
Below(S) ==
    LET T == S \cup UNION {Children(p) : p \in S}
    IN IF T = S THEN S ELSE Below(T)

Descendants(p) == Below(Children(p))

\* C14 (Strict ownership): a root has no parent, every other node is held by
\* exactly one field of one node (no two fields hold the same box), and no node
\* is below itself; so the node the parity rule adds is a box of its own, not a
\* second reference.  With one parent for every node but the roots, no node is
\* below itself exactly when every node is reached from a root: the nodes of
\* a cycle would have their parents in the cycle.
C14_StrictOwnership ==
    /\ {Held(l) : l \in Links} = DOMAIN heap \ Roots
    /\ Cardinality({Held(l) : l \in Links}) = Cardinality(Links)
    /\ UNION {Subtree(heap, r) : r \in Roots} = DOMAIN heap

\* a tree of five blocks stands, padded at two levels: an internal node and
\* its copy are the two children of one parent, in two boxes
C14_Witness ==
    /\ tree # None
    /\ Len(data) = 5
    /\ \E p \in NodesOf(tree[1]) :
           /\ heap[p].left # None
           /\ heap[p].right # None
           /\ heap[p].left # heap[p].right
           /\ heap[heap[p].left[1]] # heap[heap[p].right[1]]
           /\ heap[heap[p].left[1]].hash = heap[heap[p].right[1]].hash
           /\ heap[heap[p].left[1]].left # None

\* a step leaves every box as it is
BoxesKept == \A p \in DOMAIN heap : p \in DOMAIN heap' /\ heap'[p] = heap[p]

\* a step leaves the live trees as they are: root and leaves
TreesKept ==
    /\ tree # None => (tree' = tree \/ prev' = tree)
    /\ prev # None => prev' = prev

RECURSIVE TreeValue(_, _)
TreeValue(h, p) ==
    [hash |-> h[p].hash,
     left |-> IF h[p].left = None THEN None ELSE Some(TreeValue(h, h[p].left[1])),
     right |-> IF h[p].right = None THEN None ELSE Some(TreeValue(h, h[p].right[1]))]

\* the boxes thread t owns: those of its level, of its iterator, of its next
\* level and of the tree it returned
OwnedBy(t) ==
    LET b == builds[t]
        held == Range(b.nodes) \cup Range(b.iter) \cup Range(b.next_level)
                    \cup (IF b.tree = None THEN {} ELSE Range(b.tree[1].root))
    IN UNION {Subtree(heap, p) : p \in held}

\* what thread t returned is what MerkleTree::new returns on its input when it
\* runs alone, from an empty heap: leaves, tree, root digest and hash calls
AsAlone(t) ==
    LET mine == builds[t].tree[1]
        alone == MerkleTree_new(Machine(<<>>), builds[t].data)
    IN /\ alone.m.fault = "none"
       /\ mine.leaves = alone.v.leaves
       /\ (mine.root = None) <=> (alone.v.root = None)
       /\ mine.root # None =>
              TreeValue(heap, mine.root[1]) = TreeValue(alone.m.heap, alone.v.root[1])
       /\ root_hash(heap, mine) = root_hash(alone.m.heap, alone.v)
       /\ builds[t].log = alone.m.log

\* a step of one thread leaves the frames and the boxes of the others alone
OthersKept ==
    \A t \in Builds :
        builds'[t] # builds[t] =>
            \A u \in Builds \ {t} :
                /\ builds'[u] = builds[u]
                /\ \A p \in OwnedBy(u) : p \in DOMAIN heap' /\ heap'[p] = heap[p]

\* C16 (Independent concurrent builds): however the steps of the builds
\* interleave, no build panics, a build that returned has returned the tree
\* and root digest it returns alone, no box is owned by two builds, and a step
\* of one build changes neither the frame nor the boxes of another.
C16_IndependentBuilds ==
    /\ [](/\ fault = "none"
          /\ \A t \in Builds : builds[t].pc = "done" => AsAlone(t)
          /\ \A t, u \in Builds : t # u => OwnedBy(t) \cap OwnedBy(u) = {})
    /\ [][OthersKept]_vars

\* a build of three blocks has returned while another build, of three blocks
\* too, is in its pairing loop with one pair made
C16_Witness ==
    \E t, u \in Builds :
        /\ t # u
        /\ builds[t].pc = "done"
        /\ Len(builds[t].data) = 3
        /\ Len(builds[u].data) = 3
        /\ builds[u].pc = "pair"
        /\ Len(builds[u].iter) = 2
        /\ Len(builds[u].next_level) = 1

CeilHalf(n) == (n + 1) \div 2

\* the least k with 2^k >= n, for n >= 1
CeilLog2(n) == CHOOSE k \in 0..n : Pow2(k) >= n /\ \A j \in 0..(k - 1) : Pow2(j) < n

\* the number of nodes build_recursive was given at its i-th call
LevelSize(i) == Len(levels[i].nodes)

\* C18 (Termination): the build of a non-empty input of n blocks returns; the
\* first level is the n leaves, a level of m > 1 nodes is followed by a level
\* of ceil(m / 2) nodes, the last level is one node, the root, and there are
\* ceil(log2 n) reduction passes.
C18_Termination ==
    /\ fault = "none"
    /\ (tree # None /\ data # <<>>) =>
           /\ levels # <<>>
           /\ LevelSize(1) = Len(data)
           /\ \A i \in 1..(Len(levels) - 1) :
                  /\ LevelSize(i) > 1
                  /\ LevelSize(i + 1) = CeilHalf(LevelSize(i))
           /\ levels[Len(levels)].nodes = <<tree[1].root[1]>>
           /\ Len(levels) - 1 = CeilLog2(Len(data))

\* a tree of five blocks was built through levels of 5, 3, 2 and 1 nodes
C18_Witness ==
    /\ tree # None
    /\ Len(data) = 5
    /\ Len(levels) = 4
    /\ [i \in 1..4 |-> LevelSize(i)] = <<5, 3, 2, 1>>
    /\ digest = Some(RootOfTree)

\* the parity rule at the i-th call of build_recursive: from the level given,
\* `nodes`, to the level paired, `padded`
ParityRule(i) ==
    LET nodes == levels[i].nodes
        padded == levels[i].padded
        n == Len(nodes)
    IN IF n > 1 /\ n % 2 # 0
       THEN /\ Len(padded) = n + 1
            /\ SubSeq(padded, 1, n) = nodes
            /\ padded[n + 1] \notin Range(nodes)
            /\ heap[padded[n + 1]].hash = heap[nodes[n]].hash
            /\ TreeValue(heap, padded[n + 1]) = TreeValue(heap, nodes[n])
            /\ Subtree(heap, padded[n + 1]) \cap Subtree(heap, nodes[n]) = {}
       ELSE padded = nodes

\* C19 (Parity rule at every level): at each pass an odd level of more than one
\* node gets one copy of its last node appended, with the same digest and the
\* same subtree in boxes of its own; an even level and a level of one node are
\* paired or returned as they are; so the root of six blocks a..f is
\* hash(hash(P1++P2) ++ hash(P3++P3)), P1, P2, P3 the parents of ab, cd, ef.
C19_ParityRule ==
    tree # None =>
        /\ \A i \in 1..Len(levels) : ParityRule(i)
        /\ Len(data) = 6 =>
               LET P1 == H(H(data[1]) \o H(data[2]))
                   P2 == H(H(data[3]) \o H(data[4]))
                   P3 == H(H(data[5]) \o H(data[6]))
               IN RootOfTree = H(H(P1 \o P2) \o H(P3 \o P3))

\* a tree of six blocks was built: an even level of leaves, then an odd level
\* of three internal nodes, all different, that was padded
C19_Witness ==
    /\ tree # None
    /\ Len(data) = 6
    /\ Len(levels) = 4
    /\ Len(levels[1].padded) = 6
    /\ Len(levels[2].nodes) = 3
    /\ Len(levels[2].padded) = 4
    /\ Cardinality({heap[p].hash : p \in Range(levels[2].nodes)}) = 3
    /\ heap[levels[2].padded[4]].left # None
    /\ digest = Some(RootOfTree)

\* the pairing at the i-th call of build_recursive: from the level paired to
\* the level given to the next call
Pairing(i) ==
    LET padded == levels[i].padded
        next_level == levels[i + 1].nodes
    IN /\ Len(padded) = 2 * Len(next_level)
       /\ Cardinality(Range(padded)) = Len(padded)
       /\ \A j \in 1..Len(next_level) :
              /\ heap[next_level[j]].left = Some(padded[2 * j - 1])
              /\ heap[next_level[j]].right = Some(padded[2 * j])
              /\ heap[next_level[j]].hash =
                     H(heap[padded[2 * j - 1]].hash \o heap[padded[2 * j]].hash)

\* C20 (Pairing order): at each pass the padded level of 2k nodes gives a next
\* level of k nodes; the i-th of them has the nodes 2i and 2i+1 of the padded
\* level (counted from 0) as left and right child, so every node of the level
\* goes to one pair, in order.
C20_PairingOrder ==
    tree # None => \A i \in 1..(Len(levels) - 1) : Pairing(i)

\* a tree of six blocks was built: three pairs of leaves with three different
\* parents, then two pairs of internal nodes
C20_Witness ==
    /\ tree # None
    /\ Len(data) = 6
    /\ Len(levels[1].padded) = 6
    /\ Len(levels[2].nodes) = 3
    /\ Cardinality({heap[p].hash : p \in Range(levels[2].nodes)}) = 3
    /\ Len(levels[2].padded) = 4
    /\ Len(levels[3].nodes) = 2
    /\ Len(levels[4].nodes) = 1

\* the number of nodes of the list `sizes` of level sizes, added up
RECURSIVE Sum(_)
Sum(sizes) == IF sizes = <<>> THEN 0 ELSE Head(sizes) + Sum(Tail(sizes))

\* the internal nodes new_internal made for `tree`: those of every level after
\* the first
InternalMade == Sum([i \in 1..(Len(levels) - 1) |-> Len(levels[i + 1].nodes)])

\* the boxes of `tree` that are copies made by the parity rule, with what is
\* below them
PaddingCopies ==
    UNION {Subtree(heap, levels[i].padded[Len(levels[i].padded)]) :
               i \in {j \in 1..Len(levels) : Len(levels[j].padded) > Len(levels[j].nodes)}}

\* C21 (No re-hash on padding): a build of n >= 1 blocks calls the hash
\* function n times for the leaves, on the blocks in their order, and once for
\* each internal node it makes (6 calls for 3 blocks, 7 for 4), and not for the
\* copies of the parity rule, whose digests are those of the nodes copied.
C21_NoRehash ==
    [](
        (tree # None /\ data # <<>>) =>
            /\ Len(log) = Len(data) + InternalMade
            /\ SubSeq(log, 1, Len(data)) = data
            /\ Len(data) = 3 => Len(log) = 6
            /\ Len(data) = 4 => Len(log) = 7
            /\ Cardinality(NodesOf(tree[1]) \ PaddingCopies) = Len(log)
            /\ \A i \in 1..Len(levels) :
                   Len(levels[i].padded) > Len(levels[i].nodes) =>
                       heap[levels[i].padded[Len(levels[i].padded)]].hash
                           = heap[levels[i].nodes[Len(levels[i].nodes)]].hash
      )

\* a tree of five blocks was built with 11 hash calls and holds 15 nodes, 4 of
\* them padding copies
C21_Witness ==
    /\ tree # None
    /\ Len(data) = 5
    /\ Len(log) = 11
    /\ Cardinality(NodesOf(tree[1])) = 15
    /\ Cardinality(PaddingCopies) = 4

\* C22 (Leaf order): the first n leaf nodes of the tree of n blocks, from left
\* to right, are the leaves made from the blocks, in input order, with the
\* digests of the blocks; every leaf node after them is a padding copy and
\* carries the digest of one of the blocks.
C22_LeafOrder ==
    [](
        (tree # None /\ data # <<>>) =>
            LET leaf == Frontier(heap, tree[1].root[1])
                n == Len(data)
            IN /\ Len(leaf) >= n
               /\ SubSeq(leaf, 1, n) = levels[1].nodes
               /\ \A i \in 1..n : heap[leaf[i]].hash = H(data[i])
               /\ \A i \in (n + 1)..Len(leaf) :
                      /\ leaf[i] \in PaddingCopies
                      /\ \E j \in 1..n : heap[leaf[i]].hash = H(data[j])
      )

\* a tree of five blocks, the first two different, holds its five leaves
\* followed by three copies
C22_Witness ==
    /\ tree # None
    /\ Len(data) = 5
    /\ data[1] # data[2]
    /\ data[4] # data[5]
    /\ Len(Frontier(heap, tree[1].root[1])) = 8
    /\ digest = Some(RootOfTree)
    /\ prev = None

\* the depths at which the nodes without children lie below box p, itself at
\* depth d
RECURSIVE LeafDepths(_, _, _)
LeafDepths(h, p, d) ==
    IF h[p].left = None /\ h[p].right = None THEN {d}
    ELSE (IF h[p].left = None THEN {} ELSE LeafDepths(h, h[p].left[1], d + 1))
             \cup (IF h[p].right = None THEN {} ELSE LeafDepths(h, h[p].right[1], d + 1))

\* C23 (Perfect shape): the tree of n >= 1 blocks is a perfect binary tree of
\* depth ceil(log2 n): all its leaf nodes are at that depth and there are
\* 2^ceil(log2 n) of them, while leaves keeps n blocks (8 leaf nodes and 5
\* leaves for 5 blocks).
C23_PerfectShape ==
    [](
        (tree # None /\ data # <<>>) =>
            LET depth == CeilLog2(Len(data))
            IN /\ LeafDepths(heap, tree[1].root[1], 0) = {depth}
               /\ Cardinality(LeafNodesOf(tree[1])) = Pow2(depth)
               /\ Len(Frontier(heap, tree[1].root[1])) = Pow2(depth)
               /\ Cardinality(NodesOf(tree[1])) = 2 * Pow2(depth) - 1
               /\ Len(tree[1].leaves) = Len(data)
               /\ Len(data) = 5 =>
                      Cardinality(LeafNodesOf(tree[1])) = 8 /\ Len(tree[1].leaves) = 5
      )

\* a tree of five blocks of depth 3 stands next to a tree of three blocks
C23_Witness ==
    /\ BothBuilt
    /\ Len(data) = 5
    /\ Len(prev_data) = 3
    /\ LeafDepths(heap, tree[1].root[1], 0) = {3}
    /\ LeafDepths(heap, prev[1].root[1], 0) = {2}

\* `longer` is the odd input `shorter`, of three blocks or more, with its last
\* block once more at the end
LastRepeated(shorter, longer) ==
    /\ Len(shorter) >= 3
    /\ Len(shorter) % 2 # 0
    /\ longer = Append(shorter, shorter[Len(shorter)])

\* C24 (Padding collision): the tree of an odd input S of three blocks or more
\* and the tree of S with its last block repeated have the same root digest,
\* and indeed the same digests and shape, while their leaves differ in length.
C24_PaddingCollision ==
    (BothBuilt /\ (LastRepeated(prev_data, data) \/ LastRepeated(data, prev_data))) =>
        /\ RootOfTree = RootOfPrev
        /\ TreeValue(heap, tree[1].root[1]) = TreeValue(heap, prev[1].root[1])
        /\ Len(tree[1].leaves) # Len(prev[1].leaves)
        /\ tree[1].leaves # prev[1].leaves

\* a tree of three different blocks and a tree of the same blocks with the
\* last repeated stand, and no two strings hashed have the same digest
C24_Witness ==
    /\ BothBuilt
    /\ LastRepeated(prev_data, data)
    /\ Len(prev_data) = 3
    /\ prev_data[2] # prev_data[3]
    /\ InjectiveOnHashed
    /\ digest = Some(RootOfPrev)

\* C25 (No leaf/internal domain separation): for all blocks a and b, the tree
\* of the one block hash(a) ++ hash(b) has the root digest of the tree of the
\* two blocks a, b: its only leaf is hashed as the parent of a and b is.
C25_NoDomainSeparation ==
    \A one, two \in {<<tree, data>>, <<prev, prev_data>>} :
        (/\ BothBuilt
         /\ Len(two[2]) = 2
         /\ one[2] = <<H(two[2][1]) \o H(two[2][2])>>) =>
            /\ root_hash(heap, one[1][1]) = root_hash(heap, two[1][1])
            /\ heap[one[1][1].root[1]].left = None
            /\ heap[two[1][1].root[1]].left # None

\* a tree of two different blocks and the tree of the one block made of their
\* digests stand, and the hash function is not one under which that block is
\* one of the two
C25_Witness ==
    /\ BothBuilt
    /\ Len(prev_data) = 2
    /\ prev_data[1] # prev_data[2]
    /\ data = <<H(prev_data[1]) \o H(prev_data[2])>>
    /\ data[1] \notin Range(prev_data)
    /\ digest = Some(RootOfPrev)

\* the nodes with children, in the heap
InternalNodes == {p \in DOMAIN heap : heap[p].left # None /\ heap[p].right # None}

\* the digests of the two children of an internal node, left then right
ChildDigests(p) == <<heap[heap[p].left[1]].hash, heap[heap[p].right[1]].hash>>

\* C26 (Concatenation ambiguity): the digest of an internal node depends on the
\* string left.hash ++ right.hash only: two internal nodes whose child digests
\* concatenate to the same string have the same digest, also when their pairs
\* of child digests differ (digests are hex strings of varying length).
C26_ConcatenationAmbiguity ==
    [](
        \A p \in InternalNodes : \A q \in {x \in InternalNodes : x > p} :
            ChildDigests(p)[1] \o ChildDigests(p)[2] = ChildDigests(q)[1] \o ChildDigests(q)[2]
                => heap[p].hash = heap[q].hash
      )

\* two internal nodes have different pairs of child digests, of different
\* lengths, that concatenate to the same string, and the same digest
C26_Witness ==
    \E p, q \in InternalNodes :
        /\ ChildDigests(p) # ChildDigests(q)
        /\ Len(ChildDigests(p)[1]) # Len(ChildDigests(q)[1])
        /\ ChildDigests(p)[1] \o ChildDigests(p)[2] = ChildDigests(q)[1] \o ChildDigests(q)[2]
        /\ heap[p].hash = heap[q].hash

\* C27 (Sentinel is unambiguous): root_hash() returns the empty string on a
\* tree exactly when the tree was built from no block; every digest mock_hash
\* produced, for a leaf or an internal node, is a non-empty string.
C27_SentinelUnambiguous ==
    [](
        /\ tree # None => (RootOfTree = <<>> <=> data = <<>>)
        /\ prev # None => (RootOfPrev = <<>> <=> prev_data = <<>>)
        /\ (tree # None /\ digest # None) => (digest = Some(<<>>) <=> data = <<>>)
        /\ \A p \in DOMAIN heap : heap[p].hash # <<>>
        /\ \A x \in HashedStrings : mock_hash(x) # <<>>
      )

\* root_hash() returned a digest on a tree of one block, next to the tree of
\* the empty input
C27_Witness ==
    /\ BothBuilt
    /\ prev_data = <<>>
    /\ RootOfPrev = <<>>
    /\ Len(data) = 1
    /\ digest # None
    /\ digest # Some(<<>>)

\* C30 (Level preconditions): no unwrap or expect of the builder fails and the
\* stack does not overflow; every call of build_recursive is given a level
\* that is not empty, every level the pairing loop runs on has an even number
\* of nodes, two at least, and the empty input makes no call of
\* build_recursive.
C30_LevelPreconditions ==
    [](
        /\ fault \notin {"unwrap on None", "node count should be even", "stack overflow"}
        /\ tree # None =>
               /\ \A i \in 1..Len(levels) : levels[i].nodes # <<>>
               /\ \A i \in 1..(Len(levels) - 1) :
                      /\ Len(levels[i].padded) % 2 = 0
                      /\ Len(levels[i].padded) >= 2
               /\ (data = <<>>) <=> (levels = <<>>)
      )

\* the empty input was built, and then an odd input of five blocks, through
\* four calls of build_recursive
C30_Witness ==
    /\ BothBuilt
    /\ prev_data = <<>>
    /\ Len(data) = 5
    /\ Len(levels) = 4
    /\ Len(levels[1].padded) = 6
    /\ Len(levels[2].padded) = 4
    /\ Len(levels[3].padded) = 2

----------------------------------------------------------------------------
(* Shared account *)

\* the threads between the return of lock() and the drop of their guard
Inside == {i \in Threads : sync.pc[i] \in {"load", "store", "print", "drop"}}

\* the threads whose deposit has been written to the account
Deposited == {i \in Threads : sync.pc[i] \in {"print", "drop", "done"}}

\* the threads whose line has been printed
Printed == {i \in Threads : sync.pc[i] \in {"drop", "done"}}

\* C28 (Shared account): under every interleaving of the ten threads at most
\* one thread is between lock() and the release of its guard, and it is the
\* holder of the mutex; the balance is the deposit times the number of threads
\* that have deposited, so no deposit is lost; the k-th thread to get the lock
\* prints the balance 10 * k, so the printed balances are 10, 20, ..., 100,
\* each once, in the order of the lock; and once run() has joined all threads
\* the balance it prints is 100.
C28_SharedAccount ==
    /\ Cardinality(Inside) <= 1
    /\ \A i \in Threads : i \in Inside <=> sync.holder = Some(i)
    /\ sync.data = Deposit * Cardinality(Deposited)
    /\ Len(sync.out) = Cardinality(Printed)
    /\ \A k \in 1..Len(sync.out) : sync.out[k] = Deposit * k
    /\ \A i \in Threads :
           /\ sync.pc[i] = "print" => sync.data = Deposit * sync.acquired
           /\ sync.pc[i] = "drop" => sync.out[Len(sync.out)] = Deposit * sync.acquired
    /\ sync.main \in {"final", "done"} =>
           /\ sync.joined = NumThreads
           /\ Printed = Threads
           /\ sync.out = [k \in 1..NumThreads |-> Deposit * k]
    /\ sync.main = "done" => sync.final = Some(NumThreads * Deposit)

\* all ten threads deposited, run() joined them and printed the final balance
C28_Witness ==
    /\ sync.main = "done"
    /\ sync.joined = NumThreads
    /\ Len(sync.out) = NumThreads
    /\ sync.final = Some(NumThreads * Deposit)
    /\ sync.acquired = NumThreads + 1

----------------------------------------------------------------------------
(* Channel *)

\* the messages of wallet w in s, in the order they have in s
From(w, s) == SelectSeq(s, LAMBDA msg : msg \in Range(txs(w)))

IsPrefix(p, s) == Len(p) <= Len(s) /\ SubSeq(s, 1, Len(p)) = p

\* the messages the channel was given: those received, then those queued
Delivered == chan.received \o chan.queue

\* no message is received twice or out of its wallet's order, and the receive
\* loop is over only when both senders are dropped and all is received
ChannelDelivery ==
    /\ \A i, j \in 1..Len(Delivered) : Delivered[i] = Delivered[j] => i = j
    /\ \A w \in Wallets :
           /\ IsPrefix(From(w, Delivered), txs(w))
           /\ IsPrefix(From(w, chan.received), txs(w))
           /\ chan.pc[w] # "panicked"
    /\ chan.main = "done" =>
           /\ chan.senders = {}
           /\ chan.queue = <<>>
           /\ Len(chan.received) = Len(txs("A")) + Len(txs("B"))
           /\ \A w \in Wallets : From(w, chan.received) = txs(w)

\* C29 (Channel): under every interleaving of the two wallets and the
\* consumer, each of the five messages is received exactly once, the messages
\* of one wallet are received in the order it sent them, the receive loop ends
\* only when both senders have been dropped, and it does end: once both
\* senders are dropped the loop drains the queue and exits.
C29_Channel ==
    /\ []ChannelDelivery
    /\ [][chan'.main = "done" /\ chan.main # "done" => chan.senders = {}]_vars
    /\ <>(chan.main = "done")
    /\ (chan.senders = {}) ~> (chan.main = "done")

\* the loop has ended with the five messages, wallet B's first message having
\* overtaken wallet A's
C29_Witness ==
    /\ chan.main = "done"
    /\ chan.senders = {}
    /\ Len(chan.received) = 5
    /\ chan.received[1] = "Tx_B1"
    /\ chan.received[5] = "Tx_A3"

====
